---- MODULE Spec2Model ----
(***************************************************************************)
(* Model of the protobuf validator generator skeleton:                     *)
(*   scripts/generate-protobuf-validator.py        (the driver)            *)
(*   scripts/ProtocolBufferValidation/Generator.py  (Generator.select)     *)
(*   scripts/ProtocolBufferValidation/CppGenerator.py                      *)
(* Python strings that the code inspects are sequences of one-character    *)
(* strings; Python objects are records carrying their class name.          *)
(***************************************************************************)
EXTENDS Integers, Sequences, FiniteSets, TLC

VARIABLES argv, pc, stdout, exitStatus, fileName, protoFile, gen, uncaught,
          generated, steps, programmingLanguage, selectResult, calls

vars == <<argv, pc, stdout, exitStatus, fileName, protoFile, gen, uncaught,
          generated, steps, programmingLanguage, selectResult, calls>>

driverVars == <<argv, pc, stdout, exitStatus, fileName, protoFile, gen,
                uncaught, generated, steps>>

selectVars == <<programmingLanguage, selectResult>>

----------------------------------------------------------------------------
(* Bounds *)

MaxIdLen == 3

MaxArgs == 2

MaxMessages == 2

MaxCalls == 2

----------------------------------------------------------------------------
(* Python str.lower() on ASCII text *)

UpperCase == <<"A","B","C","D","E","F","G","H","I","J","K","L","M",
               "N","O","P","Q","R","S","T","U","V","W","X","Y","Z">>

LowerCase == <<"a","b","c","d","e","f","g","h","i","j","k","l","m",
               "n","o","p","q","r","s","t","u","v","w","x","y","z">>

lowerChar(c) ==
    IF \E i \in 1..Len(UpperCase) : UpperCase[i] = c
    THEN LowerCase[CHOOSE i \in 1..Len(UpperCase) : UpperCase[i] = c]
    ELSE c

lower(s) == [i \in 1..Len(s) |-> lowerChar(s[i])]

----------------------------------------------------------------------------
(* Python objects *)

Obj(cls) == [class |-> cls, messages |-> <<>>]

None == Obj("NoneType")

NoValue == <<>>

Mro(cls) ==
    CASE cls = "ProtoFile"    -> {"ProtoFile", "object"}
      [] cls = "CppGenerator" -> {"CppGenerator", "Generator", "object"}
      [] cls = "Generator"    -> {"Generator", "object"}
      [] OTHER                -> {cls, "object"}

isinstance(obj, cls) == cls \in Mro(obj.class)

RuntimeError(msg) == [type |-> "RuntimeError", message |-> msg]

Raise(exc) == [raised |-> TRUE, exception |-> <<exc>>, value |-> None,
               emitted |-> <<>>]

Return(v) == [raised |-> FALSE, exception |-> <<>>, value |-> v,
              emitted |-> <<>>]

----------------------------------------------------------------------------
(* Generator.select *)

Cpp == <<"c","p","p">>

CPlusPlus == <<"c","+","+">>

NoGeneratorPrefix ==
    <<"N","o"," ","g","e","n","e","r","a","t","o","r"," ","k","n","o","w","n",
      " ","f","o","r"," ","l","a","n","g","u","a","g","e"," ","\"">>

Quote == <<"\"">>

selectCaseSensitive(language) ==
    IF language = Cpp \/ language = CPlusPlus
    THEN Return(Obj("CppGenerator"))
    ELSE Raise(RuntimeError(NoGeneratorPrefix \o language \o Quote))

select(language) ==
    LET lowered == lower(language)
    IN  IF lowered = Cpp \/ lowered = CPlusPlus
        THEN Return(Obj("CppGenerator"))
        ELSE Raise(RuntimeError(NoGeneratorPrefix \o lowered \o Quote))

----------------------------------------------------------------------------
(* Schema model: ProtoFile -> Message -> Field -> RestrictAnnotation *)

Restrict(bound) == [variant |-> "RestrictAnnotation", bound |-> bound]

Field(name, kind, annotations) ==
    [name |-> name, kind |-> kind, annotations |-> annotations]

Message(name, fields) == [name |-> name, fields |-> fields]

MessagePool ==
    { Message("User", << Field("age", "integer", <<Restrict("numeric")>>),
                         Field("name", "string", <<>>) >>),
      Message("User", << Field("name", "string", <<Restrict("numeric")>>) >>),
      Message("A", <<>>),
      Message("B", << Field("x", "integer", <<>>) >>),
      Message("B", << Field("x", "integer", <<Restrict("pattern")>>) >>) }

UniqueNames(ms) ==
    \A i, j \in 1..Len(ms) : ms[i].name = ms[j].name => i = j

MessageLists ==
    { ms \in UNION { [1..n -> MessagePool] : n \in 0..MaxMessages } :
        UniqueNames(ms) }

ProtoFile(ms) == [class |-> "ProtoFile", messages |-> ms]

ProtoFiles == { ProtoFile(ms) : ms \in MessageLists }

OtherValues == { None, Obj("str"), Obj("dict") }

Values == ProtoFiles \cup OtherValues

Compatible(bound, kind) ==
    \/ bound = "numeric" /\ kind \in {"integer", "float"}
    \/ bound = "pattern" /\ kind \in {"string", "bytes"}

HasMismatch(field) ==
    \E a \in 1..Len(field.annotations) :
        ~Compatible(field.annotations[a].bound, field.kind)

MismatchedFields(pf) ==
    UNION { { <<pf.messages[m].name, pf.messages[m].fields[f].name>> :
                f \in { k \in 1..Len(pf.messages[m].fields) :
                           HasMismatch(pf.messages[m].fields[k]) } } :
            m \in 1..Len(pf.messages) }

----------------------------------------------------------------------------
(* Generator.generateValidator and CppGenerator.generateValidator *)

ExpectedProtoFile == "Expected object of type ProtoFile but got \"%s\""

NotImplemented ==
    "Not implemented - you have to call this function on a sub-class"

Generator_generateValidator(obj) ==
    Raise(RuntimeError([fmt |-> NotImplemented, arg |-> ""]))

generateWithoutTypeCheck(obj) == Return(None)

generateOnlyOnce(obj) ==
    IF ~isinstance(obj, "ProtoFile")
    THEN Raise(RuntimeError([fmt |-> ExpectedProtoFile, arg |-> obj.class]))
    ELSE IF calls # <<>>
         THEN Raise(RuntimeError([fmt |-> "Already generated", arg |-> ""]))
         ELSE Return(None)

CppGenerator_generateValidator(obj) ==
    IF ~isinstance(obj, "ProtoFile")
    THEN Raise(RuntimeError([fmt |-> ExpectedProtoFile, arg |-> obj.class]))
    ELSE Return(None)

generateValidator(self, obj) ==
    IF isinstance(self, "CppGenerator")
    THEN CppGenerator_generateValidator(obj)
    ELSE Generator_generateValidator(obj)

----------------------------------------------------------------------------
(* Direct calls of Generator.select *)

IdAlphabet == {"c", "C", "p", "P", "+"}

Java == <<"J","a","v","a">>

Identifiers ==
    UNION { [1..n -> IdAlphabet] : n \in 0..MaxIdLen }
        \cup { Java, lower(Java), <<"C","p","p">> }

Idle ==
    /\ argv = <<>>
    /\ pc = "idle"
    /\ stdout = <<>>
    /\ exitStatus = NoValue
    /\ fileName = NoValue
    /\ protoFile = NoValue
    /\ uncaught = NoValue
    /\ generated = <<>>
    /\ steps = <<>>

InitSelect ==
    /\ Idle
    /\ gen = NoValue
    /\ calls = <<>>
    /\ programmingLanguage \in Identifiers
    /\ selectResult = NoValue

CallSelect ==
    /\ pc = "idle"
    /\ selectResult = NoValue
    /\ programmingLanguage \in Identifiers
    /\ selectResult' = <<select(programmingLanguage)>>
    /\ UNCHANGED <<driverVars, programmingLanguage, calls>>

NextSelect == CallSelect

SpecSelect == InitSelect /\ [][NextSelect]_vars

----------------------------------------------------------------------------
(* Direct calls of generateValidator on a selected generator *)

InitGenerate ==
    /\ Idle
    /\ gen = <<select(Cpp).value>>
    /\ calls = <<>>
    /\ programmingLanguage = Cpp
    /\ selectResult = <<select(Cpp)>>

CallGenerateValidator ==
    /\ pc = "idle"
    /\ gen # NoValue
    /\ Len(calls) < MaxCalls
    /\ \E v \in Values :
          calls' = Append(calls, [input |-> v,
                                  result |-> generateValidator(gen[1], v)])
    /\ UNCHANGED <<driverVars, selectVars>>

NextGenerate == CallGenerateValidator

SpecGenerate == InitGenerate /\ [][NextGenerate]_vars

----------------------------------------------------------------------------
(* The driver: generate-protobuf-validator.py run as __main__ *)

Script == <<"g","e","n",".","p","y">>

ArgStrings ==
    { <<"-","h">>, <<"-","H">>,
      <<"-","-","h","e","l","p">>, <<"-","-","H","E","L","P">>,
      <<"-","-","H","e","l","p">>, <<"h","e","l","p">>,
      <<"s",".","p","r","o","t","o">>, <<"-","x">>, <<>> }

Argvs ==
    { <<Script>> \o args :
        args \in UNION { [1..n -> ArgStrings] : n \in 0..MaxArgs } }

DriverLanguageJava == <<"j","a","v","a">>

DriverLanguage == <<"c","p","p">>

Line(text, arg) == [text |-> text, arg |-> arg]

printHelp(file) ==
    << Line("Usage:", <<>>), Line("%s <pathToProtoFile>", file),
       Line("", <<>>) >>

FromFileOutcomes == ProtoFiles \cup {None}

Init ==
    /\ argv \in Argvs
    /\ pc = "argcount"
    /\ stdout = <<>>
    /\ exitStatus = NoValue
    /\ fileName = NoValue
    /\ protoFile = NoValue
    /\ gen = NoValue
    /\ uncaught = NoValue
    /\ generated = <<>>
    /\ steps = <<>>
    /\ programmingLanguage = NoValue
    /\ selectResult = NoValue
    /\ calls = <<>>

CheckArgCountTooFewOnly ==
    /\ pc = "argcount"
    /\ IF Len(argv) < 2
       THEN /\ stdout' = stdout
                  \o << Line("[ERROR]: Invalid argument count (%d)",
                             Len(argv) - 1) >>
                  \o printHelp(argv[1])
            /\ exitStatus' = <<1>>
            /\ pc' = "exit"
       ELSE /\ pc' = "help"
            /\ UNCHANGED <<stdout, exitStatus>>
    /\ UNCHANGED <<argv, fileName, protoFile, gen, uncaught, generated, steps,
                   selectVars, calls>>

CheckArgCount ==
    /\ pc = "argcount"
    /\ IF ~(Len(argv) = 2)
       THEN /\ stdout' = stdout
                  \o << Line("[ERROR]: Invalid argument count (%d)",
                             Len(argv) - 1) >>
                  \o printHelp(argv[1])
            /\ exitStatus' = <<1>>
            /\ pc' = "exit"
       ELSE /\ pc' = "help"
            /\ UNCHANGED <<stdout, exitStatus>>
    /\ UNCHANGED <<argv, fileName, protoFile, gen, uncaught, generated, steps,
                   selectVars, calls>>

CheckHelpShortOnly ==
    /\ pc = "help"
    /\ IF lower(argv[2]) = <<"-","h">>
       THEN /\ stdout' = stdout \o printHelp(argv[1])
            /\ exitStatus' = <<0>>
            /\ pc' = "exit"
       ELSE /\ pc' = "load"
            /\ UNCHANGED <<stdout, exitStatus>>
    /\ UNCHANGED <<argv, fileName, protoFile, gen, uncaught, generated, steps,
                   selectVars, calls>>

CheckHelp ==
    /\ pc = "help"
    /\ IF lower(argv[2]) = <<"-","h">>
            \/ lower(argv[2]) = <<"-","-","h","e","l","p">>
       THEN /\ stdout' = stdout \o printHelp(argv[1])
            /\ exitStatus' = <<0>>
            /\ pc' = "exit"
       ELSE /\ pc' = "load"
            /\ UNCHANGED <<stdout, exitStatus>>
    /\ UNCHANGED <<argv, fileName, protoFile, gen, uncaught, generated, steps,
                   selectVars, calls>>

LoadSchema ==
    /\ pc = "load"
    /\ fileName' = <<argv[2]>>
    /\ \E parsed \in FromFileOutcomes : protoFile' = <<parsed>>
    /\ steps' = Append(steps, "fromFile")
    /\ pc' = "parsed"
    /\ UNCHANGED <<argv, stdout, exitStatus, gen, uncaught, generated,
                   selectVars, calls>>

CheckParseNoExit ==
    /\ pc = "parsed"
    /\ IF protoFile[1] = None
       THEN /\ stdout' = stdout
                  \o << Line("[ERROR]: Failed at parsing ProtoFile!", <<>>) >>
            /\ pc' = "select"
            /\ UNCHANGED exitStatus
       ELSE /\ stdout' = stdout \o << Line("%s", protoFile[1]) >>
            /\ pc' = "select"
            /\ UNCHANGED exitStatus
    /\ UNCHANGED <<argv, fileName, protoFile, gen, uncaught, generated, steps,
                   selectVars, calls>>

CheckParse ==
    /\ pc = "parsed"
    /\ IF protoFile[1] = None
       THEN /\ stdout' = stdout
                  \o << Line("[ERROR]: Failed at parsing ProtoFile!", <<>>) >>
            /\ exitStatus' = <<1>>
            /\ pc' = "exit"
       ELSE /\ stdout' = stdout \o << Line("%s", protoFile[1]) >>
            /\ pc' = "select"
            /\ UNCHANGED exitStatus
    /\ UNCHANGED <<argv, fileName, protoFile, gen, uncaught, generated, steps,
                   selectVars, calls>>

SelectGenerator ==
    /\ pc = "select"
    /\ LET r == select(DriverLanguage)
       IN  /\ programmingLanguage' = DriverLanguage
           /\ selectResult' = <<r>>
           /\ steps' = Append(steps, "select")
           /\ IF r.raised
              THEN /\ uncaught' = r.exception
                   /\ exitStatus' = <<1>>
                   /\ pc' = "exit"
                   /\ UNCHANGED <<gen, stdout>>
              ELSE /\ gen' = <<r.value>>
                   /\ stdout' = stdout \o << Line("%s", r.value.class) >>
                   /\ pc' = "generate"
                   /\ UNCHANGED <<uncaught, exitStatus>>
    /\ UNCHANGED <<argv, fileName, protoFile, generated, calls>>

GenerateValidator ==
    /\ pc = "generate"
    /\ LET r == generateValidator(gen[1], protoFile[1])
       IN  /\ calls' = Append(calls, [input |-> protoFile[1], result |-> r])
           /\ steps' = Append(steps, "generateValidator")
           /\ generated' = generated \o r.emitted
           /\ IF r.raised
              THEN /\ uncaught' = r.exception
                   /\ exitStatus' = <<1>>
              ELSE /\ exitStatus' = <<0>>
                   /\ UNCHANGED uncaught
           /\ pc' = "exit"
    /\ UNCHANGED <<argv, stdout, fileName, protoFile, gen, selectVars>>

Next ==
    \/ CheckArgCount
    \/ CheckHelp
    \/ LoadSchema
    \/ CheckParse
    \/ SelectGenerator
    \/ GenerateValidator

Spec == Init /\ [][Next]_vars

FairSpec == Init /\ [][Next]_vars /\ WF_vars(Next)

----------------------------------------------------------------------------
(* Vocabulary of the properties *)

IsCppSpelling(id) ==
    /\ Len(id) = 3
    /\ id[1] \in {"c", "C"}
    /\ \/ id[2] \in {"p", "P"} /\ id[3] \in {"p", "P"}
       \/ id[2] = "+" /\ id[3] = "+"

Contains(s, sub) ==
    \E i \in 0..(Len(s) - Len(sub)) : SubSeq(s, i + 1, i + Len(sub)) = sub

IsHelpFlag(arg) == arg = <<"-","h">> \/ arg = <<"-","-","h","e","l","p">>

FullRun == <<"fromFile", "select", "generateValidator">>

IsPrefix(s, t) == Len(s) <= Len(t) /\ SubSeq(t, 1, Len(s)) = s

Occurs(step) == \E i \in 1..Len(steps) : steps[i] = step

----------------------------------------------------------------------------
(* Properties of Generator.select, checked under SpecSelect *)

\* C1: select is case-insensitive: every spelling of "cpp" or "c++", in any
\* mix of upper and lower case, returns without error a CppGenerator.
SelectIsCaseInsensitive ==
    (selectResult # NoValue /\ IsCppSpelling(programmingLanguage))
        => /\ ~selectResult[1].raised
           /\ selectResult[1].value.class = "CppGenerator"

SelectUpperCaseCpp ==
    /\ programmingLanguage = <<"C","P","P">>
    /\ selectResult # NoValue
    /\ ~selectResult[1].raised
    /\ selectResult[1].value.class = "CppGenerator"

\* C2: for every identifier that matches no generator, select raises an
\* error whose message contains the identifier exactly as the caller
\* passed it (original case).
UnknownLanguageNamesOriginalIdentifier ==
    (selectResult # NoValue /\ ~IsCppSpelling(programmingLanguage))
        => /\ selectResult[1].raised
           /\ selectResult[1].value = None
           /\ Contains(selectResult[1].exception[1].message,
                       programmingLanguage)

----------------------------------------------------------------------------
(* Properties of CppGenerator.generateValidator, checked under SpecGenerate *)

\* C3: a call of generateValidator with a value that is not a ProtoFile
\* raises the invalid-input error and has emitted no unit.
NonProtoFileRejectedWithoutOutput ==
    \A i \in 1..Len(calls) :
        calls[i].input.class # "ProtoFile"
            => /\ calls[i].result.raised
               /\ calls[i].result.exception[1].type = "RuntimeError"
               /\ calls[i].result.exception[1].message.fmt = ExpectedProtoFile
               /\ calls[i].result.emitted = <<>>

StringRejected ==
    \E i \in 1..Len(calls) :
        /\ calls[i].input = Obj("str")
        /\ calls[i].result.raised
        /\ calls[i].result.exception[1].message.arg = "str"

\* C4: for a well-formed ProtoFile generateValidator returns a
\* GeneratedSource with exactly one unit per message, in schema order.
OneUnitPerMessageInOrder ==
    \A i \in 1..Len(calls) :
        (calls[i].input.class = "ProtoFile"
            /\ MismatchedFields(calls[i].input) = {})
            => /\ ~calls[i].result.raised
               /\ Len(calls[i].result.emitted) = Len(calls[i].input.messages)
               /\ \A m \in 1..Len(calls[i].input.messages) :
                     calls[i].result.emitted[m].message
                         = calls[i].input.messages[m].name

TypeMismatchRejected ==
    \A i \in 1..Len(calls) :
        (calls[i].input.class = "ProtoFile"
            /\ MismatchedFields(calls[i].input) # {})
            => /\ calls[i].result.raised
               /\ calls[i].result.exception[1].type
                     = "CONSTRAINT_TYPE_MISMATCH"
               /\ calls[i].result.emitted = <<>>

----------------------------------------------------------------------------
(* Properties of the driver, checked under Spec and FairSpec *)

\* C5: after a failed parse (fromFile gave None) the driver never selects
\* a generator or calls generateValidator, and it exits with status 1 after
\* reporting the failure.
FailedParseExitsWithoutGeneration ==
    protoFile = <<None>>
        => /\ steps = <<"fromFile">>
           /\ gen = NoValue
           /\ calls = <<>>
           /\ pc \in {"parsed", "exit"}
           /\ pc = "exit"
                 => /\ exitStatus = <<1>>
                    /\ Len(stdout) = 1
                    /\ stdout[1].text = "[ERROR]: Failed at parsing ProtoFile!"

FailedParseExited ==
    /\ protoFile = <<None>>
    /\ pc = "exit"
    /\ exitStatus = <<1>>

\* C6: with an argument count other than one the driver prints the error
\* message and exits with status 1 before parsing, selecting or generating.
WrongArgumentCountExitsFirst ==
    Len(argv) # 2
        => /\ steps = <<>>
           /\ protoFile = NoValue
           /\ gen = NoValue
           /\ calls = <<>>
           /\ pc \in {"argcount", "exit"}
           /\ pc = "exit"
                 => /\ exitStatus = <<1>>
                    /\ Len(stdout) = 4
                    /\ stdout[1].text = "[ERROR]: Invalid argument count (%d)"
                    /\ stdout[1].arg = Len(argv) - 1

TwoArgumentsRejected ==
    /\ Len(argv) = 3
    /\ pc = "exit"
    /\ exitStatus = <<1>>

\* C7: invoked with -h or --help as its argument the driver prints the
\* usage text and exits with status 0 without parsing or generating.
HelpPrintsUsageAndExitsZero ==
    (Len(argv) = 2 /\ IsHelpFlag(argv[2]))
        => /\ steps = <<>>
           /\ protoFile = NoValue
           /\ gen = NoValue
           /\ calls = <<>>
           /\ pc \in {"argcount", "help", "exit"}
           /\ pc = "exit"
                 => /\ exitStatus = <<0>>
                    /\ Len(stdout) = 3
                    /\ stdout[1].text = "Usage:"
                    /\ stdout[2].text = "%s <pathToProtoFile>"
                    /\ stdout[2].arg = argv[1]
                    /\ stdout[3].text = ""

LongHelpExited ==
    /\ argv = <<Script, <<"-","-","h","e","l","p">> >>
    /\ pc = "exit"
    /\ exitStatus = <<0>>
    /\ Len(stdout) = 3

DriverOrder ==
    /\ IsPrefix(steps, FullRun)
    /\ Len(calls) <= 1
    /\ Len(calls) = 1 <=> Occurs("generateValidator")
    /\ selectResult # NoValue => ~selectResult[1].raised
    /\ Occurs("select") => /\ protoFile # NoValue
                           /\ protoFile[1].class = "ProtoFile"
    /\ Occurs("generateValidator")
          => /\ gen # NoValue
             /\ gen[1].class = "CppGenerator"
             /\ calls[1].input = protoFile[1]
    /\ (pc = "exit" /\ Len(argv) = 2 /\ ~IsHelpFlag(lower(argv[2]))
           /\ protoFile # <<None>>)
          => steps = FullRun

\* C10: every run performs load, select, generate in that order;
\* generateValidator is called at most once, only after a successful parse
\* and a successful select; select("cpp") never fails; and every run with
\* one non-help argument and a parseable schema reaches the
\* generateValidator call on a CppGenerator.
DriverRunsLoadSelectGenerate == [](DriverOrder) /\ <>(pc = "exit")

FullRunCompleted ==
    /\ pc = "exit"
    /\ steps = FullRun
    /\ gen = <<Obj("CppGenerator")>>
    /\ exitStatus = <<0>>

====
